---- MODULE Spec2Model ----
(***************************************************************************)
(* PacketConnection of src/_packet.py: the serial link with its background *)
(* reader, its heartbeat sender, the packet queue and the send helpers.    *)
(*                                                                         *)
(* asyncio runs one coroutine at a time and switches only at an await, so  *)
(* every action below is the code between two awaits of one coroutine.     *)
(* Calls of open(), close(), read_packet() and send_*() come from the      *)
(* callers of the class; the two workers are asyncio tasks.                *)
(***************************************************************************)
EXTENDS Integers, Sequences, FiniteSets, TLC

(* ------------------------------ bounds -------------------------------- *)
\* transports (AioSerial objects) ever created
MaxSer == 2
\* open()/close() calls suspended at an await at the same time
MaxInFlight == 2
\* lines the readers take from the transport
MaxLines == 2
\* clock ticks
MaxTime == 2
\* heartbeat_timeout (constructor argument) in ticks
heartbeat_timeout == 2
\* deadline_sec (argument of read_packet) in ticks
deadline_sec == 1
\* reconcile_sensor_data calls in a row
MaxCalls == 3

(* --------------------------- program constants ------------------------ *)
KIND_SENSOR_REPORT == 0
KIND_HEARTBEAT == 9
KIND_CMD_PUMP == 0
KIND_CMD_PELTIER == 1
KIND_CMD_FANS == 2
MaxLevel == 1023
LIGHT_FALLBACK == -1

VARIABLES
  ser,            \* self.ser: 0 is None, else the transport's number
  serState,       \* per transport created: "open", "broken" or "closed"
  readerTask,     \* self._reader_task: 0 is None, else the task's number
  heartbeatTask,  \* self._heartbeat_task
  tasks,          \* every task created: [kind, pc, io, cancel, failed]; io is the
                  \* transport of the read or write the task is suspended in (in the
                  \* reader's backoff: the transport whose read raised), else 0;
                  \* failed: a heartbeat write of the task has raised
  queue,          \* self._packet_queue
  lastHeartbeat,  \* self._last_heartbeat_time
  aliveFlag,      \* self._is_alive
  now,            \* time.monotonic()
  openWait,       \* open() calls suspended in asyncio.sleep(0.5)
  closeWait,      \* close() calls suspended in "await task": [stage, task]
  rpWait,         \* read_packet suspended in wait_for: [t0, stopped], t0 = -1 when none
                  \* is (stopped: the reader had run into a failed transport when the
                  \* call began; the code does not look at it)
  sndBusy,        \* send_* suspended in write_async: the transport, or 0
  nRead,          \* lines taken from the transport so far
  enqueued,       \* history: every packet put on the queue, in order
  delivered,      \* history: every packet read_packet returned, in order
  linkOpen,       \* history: an open() completed on a transport not released since
  openTime,       \* history: when the last open() completed
  hbTime,         \* history: when the last inbound heartbeat was read (-1: never)
  ev,             \* the step just taken: [type, arg, res, out]
  rtune,          \* the ReconcilerTune the reconciler is called with
  rconfig,        \* the ReconcilerConfig the reconciler is called with
  rstate,         \* the ReconcilerState threaded from call to call
  rsamples,       \* history: the reports of the reconcile calls so far, in order
  rout,           \* the last reconcile call: its inputs, intermediate values and command
  orch            \* read_task of main.py: [pc, packet, last_report, last_command,
                  \* last_time, raised, log]; None is <<>>, a value x is <<x>>; log is
                  \* the history of the packets it got, its reconcile calls and sends

vars == <<ser, serState, readerTask, heartbeatTask, tasks, queue, lastHeartbeat,
          aliveFlag, now, openWait, closeWait, rpWait, sndBusy, nRead, enqueued,
          delivered, linkOpen, openTime, hbTime, ev, rtune, rconfig, rstate,
          rsamples, rout, orch>>

conn == <<ser, serState, readerTask, heartbeatTask, tasks, queue, lastHeartbeat, aliveFlag>>
hist == <<enqueued, delivered, linkOpen, openTime, hbTime>>
\* what the application above the link holds: the reconciler's data
app == <<rtune, rconfig, rstate, rsamples, rout, orch>>
\* the link and what is observed of it
link == <<conn, now, openWait, closeWait, rpWait, sndBusy, nRead, hist, ev>>

Ev(type, arg, res, out) == [type |-> type, arg |-> arg, res |-> res, out |-> out]
NoEv == Ev("none", <<>>, "", <<>>)
NoRead == [t0 |-> -1, stopped |-> FALSE]

(* ------------------------------ wire lines ---------------------------- *)
\* A field of a line is text that int(x, 10) accepts, or text it rejects.
IntF(n) == [isInt |-> TRUE, v |-> n]
StrF == [isInt |-> FALSE, v |-> 0]

HeartbeatLine == <<IntF(KIND_HEARTBEAT)>>
ReportLine(m) == <<IntF(KIND_SENSOR_REPORT), IntF(m), IntF(20), IntF(50), IntF(18), IntF(55)>>
\* a report of an inner temperature 5 degrees above the default target
HotReportLine == <<IntF(KIND_SENSOR_REPORT), IntF(40), IntF(25), IntF(50), IntF(18), IntF(55)>>
BadKindLine == <<StrF, IntF(1), IntF(2)>>
ShortReportLine == <<IntF(KIND_SENSOR_REPORT), IntF(1), IntF(2)>>
NonIntReportLine == <<IntF(KIND_SENSOR_REPORT), IntF(1), StrF, IntF(3), IntF(4), IntF(5)>>
OtherKindLine == <<IntF(5), IntF(1), IntF(2)>>
BlankLine == <<>>

Lines == {HeartbeatLine, ReportLine(10), HotReportLine, BadKindLine, ShortReportLine,
          NonIntReportLine, OtherKindLine, BlankLine}

\* the wire format's heartbeat: a line whose first field is the integer 9
IsHeartbeatLine(line) == Len(line) > 0 /\ line[1] = IntF(KIND_HEARTBEAT)

\* read_light(): no I2C bus, a reading, or an I/O error of the bus
LightOutcomes == {"nobus", "lux", "oserror"}

\* parse_line with a default kind in place of None for a first field that is no integer
parse_line_defaults(line) ==
  IF line[1].isInt THEN [ok |-> TRUE, kind |-> line[1].v, fields |-> Tail(line)]
  ELSE [ok |-> TRUE, kind |-> -1, fields |-> Tail(line)]

\* _parse_line: the kind and the remaining fields, or None
parse_line(line) ==
  IF line[1].isInt THEN [ok |-> TRUE, kind |-> line[1].v, fields |-> Tail(line)]
  ELSE [ok |-> FALSE, kind |-> 0, fields |-> <<>>]

\* read_light
read_light(light) ==
  CASE light = "nobus" -> [raised |-> "", lux |-> LIGHT_FALLBACK]
    [] light = "lux" -> [raised |-> "", lux |-> 100]
    [] OTHER -> [raised |-> "OSError", lux |-> 0]

\* _decode_sensor_report: a SensorReport, or the exception raised
decode_sensor_report(fields, light) ==
  IF Len(fields) # 5 THEN [raised |-> "ValueError", report |-> <<>>]
  ELSE IF \E i \in 1..5 : ~fields[i].isInt THEN [raised |-> "ValueError", report |-> <<>>]
  ELSE IF read_light(light).raised # "" THEN [raised |-> read_light(light).raised, report |-> <<>>]
  ELSE [raised |-> "",
        report |-> [moisture |-> fields[1].v, temp_inner |-> fields[2].v,
                    humd_inner |-> fields[3].v, temp_outer |-> fields[4].v,
                    humd_outer |-> fields[5].v, illumination |-> read_light(light).lux]]

\* HandleLine without the "continue" of the heartbeat branch: the heartbeat
\* falls through to the branch that queues other packets
HandleLineQueuesHeartbeat(line, light) ==
  IF Len(line) = 0 THEN [act |-> "skip", pkt |-> <<>>]
  ELSE IF ~parse_line(line).ok THEN [act |-> "skip", pkt |-> <<>>]
  ELSE IF parse_line(line).kind = KIND_SENSOR_REPORT
       THEN IF decode_sensor_report(parse_line(line).fields, light).raised # ""
            THEN [act |-> "raise", pkt |-> <<>>]
            ELSE [act |-> "put",
                  pkt |-> <<KIND_SENSOR_REPORT,
                            decode_sensor_report(parse_line(line).fields, light).report>>]
       ELSE [act |-> "put", pkt |-> <<parse_line(line).kind, parse_line(line).fields>>]

\* What one pass of the reader's loop body does with a line it has read:
\* "skip" (continue), "heartbeat", "put" a packet, or "raise" into the handler.
HandleLine(line, light) ==
  IF Len(line) = 0 THEN [act |-> "skip", pkt |-> <<>>]
  ELSE IF ~parse_line(line).ok THEN [act |-> "skip", pkt |-> <<>>]
  ELSE IF parse_line(line).kind = KIND_HEARTBEAT THEN [act |-> "heartbeat", pkt |-> <<>>]
  ELSE IF parse_line(line).kind = KIND_SENSOR_REPORT
       THEN IF decode_sensor_report(parse_line(line).fields, light).raised # ""
            THEN [act |-> "raise", pkt |-> <<>>]
            ELSE [act |-> "put",
                  pkt |-> <<KIND_SENSOR_REPORT,
                            decode_sensor_report(parse_line(line).fields, light).report>>]
       ELSE [act |-> "put", pkt |-> <<parse_line(line).kind, parse_line(line).fields>>]

(* ------------------------------ reconciler ---------------------------- *)
(* reconcile_sensor_data of src/_reconciler.py.  Its floats are numbers in   *)
(* units of 1/Scale; a product or a quotient is rounded to the nearest unit  *)
(* (ties to even), as binary64 rounds to the nearest of its own values, and  *)
(* sums and differences are exact.                                           *)
Scale == 1000

Abs(x) == IF x < 0 THEN -x ELSE x

\* n / d rounded to the nearest integer, ties to even (d > 0)
RoundDiv(n, d) ==
  LET q == n \div d
      r == n % d
  IN IF 2 * r < d THEN q
     ELSE IF 2 * r > d THEN q + 1
     ELSE IF q % 2 = 0 THEN q ELSE q + 1

\* a * b and a / b of two floats
FMul(a, b) == RoundDiv(a * b, Scale)
FDiv(a, b) == IF b > 0 THEN RoundDiv(a * Scale, b) ELSE RoundDiv(-(a * Scale), -b)

RECURSIVE Sum(_)
Sum(sq) == IF sq = <<>> THEN 0 ELSE Head(sq) + Sum(Tail(sq))

\* ReconcilerTune() and ReconcilerConfig(): the defaults of the dataclasses
DefaultTune ==
  [pump_Kp |-> 10 * Scale, pump_Ki |-> Scale \div 10, pump_Kd |-> Scale \div 10,
   peltier_Kp |-> 50 * Scale, peltier_Ki |-> Scale \div 5, peltier_Kd |-> Scale \div 1000,
   temp_ema_alpha |-> Scale \div 10, temp_ema_count |-> 1,
   moisture_ema_alpha |-> Scale \div 10, moisture_ema_count |-> 1,
   temp_deadband |-> Scale, moisture_deadband |-> Scale,
   cutoff |-> 64, der_tau |-> Scale, aw_limit |-> 2 * Scale]
DefaultConfig ==
  [moisture_range |-> <<20, 60>>, target_inner_temp |-> 20, pump_disable_times |-> <<>>]

\* ReconcilerState(): None is the empty sequence, a float x is <<x>>
DefaultState ==
  [temp_ema |-> <<>>, moisture_ema |-> <<>>,
   integral_moisture |-> 0, last_moisture_error |-> 0,
   integral_temp |-> 0, last_temp_error |-> 0,
   filt_moist |-> <<>>, filt_temp |-> <<>>, der_moist |-> 0, der_temp |-> 0]

\* _clamp without its bounds
clamp_off(v, lo, hi) == v

\* _clamp
clamp(v, lo, hi) == IF v < lo THEN lo ELSE IF v > hi THEN hi ELSE v

\* _ema_update with the filter started from zero in place of the first input
ema_update_from_zero(prev, x, alpha) ==
  LET a == clamp(alpha, 0, Scale)
  IN IF prev = <<>> THEN FMul(a, x) ELSE FMul(Scale - a, prev[1]) + FMul(a, x)

\* _ema_update
ema_update(prev, x, alpha) ==
  LET a == clamp(alpha, 0, Scale)
  IN IF prev = <<>> THEN x ELSE FMul(Scale - a, prev[1]) + FMul(a, x)

\* the warmup buffer without the eviction of its oldest sample
warmup_keep_all(buf, x, count) == Append(buf, x)

\* the warmup buffer after append and, when it is over its length, pop(0)
warmup_push(buf, x, count) ==
  IF Len(buf) + 1 > count THEN Tail(Append(buf, x)) ELSE Append(buf, x)

\* one window of the loop of _is_pump_disabled without the branch for a
\* window that passes midnight
window_active_no_wrap(start_time, end_time, current_time) ==
  start_time <= current_time /\ current_time < end_time

\* one window of the loop of _is_pump_disabled; times are minutes of the day
window_active(start_time, end_time, current_time) ==
  IF start_time > end_time
  THEN current_time >= start_time \/ current_time < end_time
  ELSE start_time <= current_time /\ current_time < end_time

\* dt_time(h, m)
dt_time(h, m) == 60 * h + m

\* _is_pump_disabled; clock is datetime.now().time()
is_pump_disabled(config, clock) ==
  \E i \in 1..Len(config.pump_disable_times) :
    LET w == config.pump_disable_times[i]
    IN window_active(dt_time(w[1], w[2]), dt_time(w[3], w[4]), clock)

\* the on/off decision with the pump also on at the lower edge of the band
pump_on_off_at_edge(filt_moist, config, tune) ==
  IF filt_moist <= config.moisture_range[1] * Scale - tune.moisture_deadband
  THEN 1023 ELSE 0

\* the on/off decision of the pump outside a disable window
pump_on_off(filt_moist, config, tune) ==
  LET moist_db_lo == config.moisture_range[1] * Scale - tune.moisture_deadband
      moist_db_hi == config.moisture_range[2] * Scale + tune.moisture_deadband
  IN IF filt_moist < moist_db_lo THEN 1023
     ELSE IF filt_moist > moist_db_hi THEN 0
     ELSE 0

\* the temperature error without its deadband
deadband_off(temp_error, tune) == temp_error

\* the temperature error after the deadband
deadband(temp_error, tune) ==
  IF Abs(temp_error) < tune.temp_deadband THEN 0 ELSE temp_error

\* the integral left as accumulated, with no anti-windup
anti_windup_off(integral_temp, tune) ==
  [I_temp |-> FMul(tune.peltier_Ki, integral_temp), integral_temp |-> integral_temp]

\* anti-windup: the integral's contribution clamped, the integral set from it
anti_windup(integral_temp, tune) ==
  IF tune.peltier_Ki > 0
  THEN LET I_temp == clamp(FMul(tune.peltier_Ki, integral_temp),
                           -tune.aw_limit, tune.aw_limit)
       IN [I_temp |-> I_temp, integral_temp |-> FDiv(I_temp, tune.peltier_Ki)]
  ELSE [I_temp |-> FMul(tune.peltier_Ki, integral_temp), integral_temp |-> integral_temp]

\* the integration never skipped
worsen_never(u_tmp_t_sat, temp_error) == FALSE

\* worsen_t: the tentative output is at a bound and the error pushes past it
worsen(u_tmp_t_sat, temp_error) ==
  \/ (u_tmp_t_sat >= 1023 * Scale /\ temp_error > 0)
  \/ (u_tmp_t_sat <= -1023 * Scale /\ temp_error < 0)

\* the direction flag with its two values exchanged
peltier_direction_swapped(peltier_u) == IF peltier_u >= 0 THEN 1 ELSE 0

\* peltier_forward
peltier_direction(peltier_u) == IF peltier_u >= 0 THEN 0 ELSE 1

\* reconcile_sensor_data: the new state, the command, and the values the
\* code computes on the way (report: [moisture, temp_inner], both integers)
reconcile_sensor_data(prev_state, config, tune, report, dt_arg, clock) ==
  LET dt == IF dt_arg <= 0 THEN Scale \div 1000 ELSE dt_arg
      temp_ema == IF tune.temp_ema_count > 0
                  THEN warmup_push(prev_state.temp_ema, report.temp_inner * Scale,
                                   tune.temp_ema_count)
                  ELSE prev_state.temp_ema
      temp_sma == IF tune.temp_ema_count > 0
                  THEN RoundDiv(Sum(temp_ema), Len(temp_ema))
                  ELSE report.temp_inner * Scale
      moisture_ema == IF tune.moisture_ema_count > 0
                      THEN warmup_push(prev_state.moisture_ema, report.moisture * Scale,
                                       tune.moisture_ema_count)
                      ELSE prev_state.moisture_ema
      moist_sma == IF tune.moisture_ema_count > 0
                   THEN RoundDiv(Sum(moisture_ema), Len(moisture_ema))
                   ELSE report.moisture * Scale
      filt_temp == ema_update(prev_state.filt_temp, temp_sma, tune.temp_ema_alpha)
      filt_moist == ema_update(prev_state.filt_moist, moist_sma, tune.moisture_ema_alpha)
      disabled == is_pump_disabled(config, clock)
      pump_raw == IF disabled THEN 0 ELSE pump_on_off(filt_moist, config, tune)
      pump_level == IF pump_raw < tune.cutoff THEN 0 ELSE pump_raw
      a_der == IF tune.der_tau > 0 THEN FDiv(tune.der_tau, tune.der_tau + dt) ELSE 0
      temp_error == deadband(config.target_inner_temp * Scale - filt_temp, tune)
      raw_d_t == FDiv(temp_error - prev_state.last_temp_error, dt)
      der_temp == FMul(a_der, prev_state.der_temp) + FMul(Scale - a_der, raw_d_t)
      u_noI_temp == FMul(tune.peltier_Kp, temp_error) + FMul(tune.peltier_Kd, der_temp)
      u_tmp_t == u_noI_temp + FMul(tune.peltier_Ki, prev_state.integral_temp)
      u_tmp_t_sat == clamp(u_tmp_t, -1023 * Scale, 1023 * Scale)
      worsen_t == worsen(u_tmp_t_sat, temp_error)
      integrated == IF ~worsen_t /\ temp_error # 0
                    THEN prev_state.integral_temp + FMul(temp_error, dt)
                    ELSE prev_state.integral_temp
      aw == anti_windup(integrated, tune)
      peltier_u == clamp(u_noI_temp + aw.I_temp, -1023 * Scale, 1023 * Scale)
      peltier_forward == peltier_direction(peltier_u)
      peltier_round == RoundDiv(Abs(peltier_u), Scale)
      peltier_level == IF peltier_round < tune.cutoff THEN 0 ELSE peltier_round
  IN [state |-> [prev_state EXCEPT !.temp_ema = temp_ema, !.moisture_ema = moisture_ema,
                                   !.filt_temp = <<filt_temp>>, !.filt_moist = <<filt_moist>>,
                                   !.der_temp = der_temp,
                                   !.integral_temp = aw.integral_temp,
                                   !.last_temp_error = temp_error],
      command |-> [pump_level |-> pump_level, peltier_level |-> peltier_level,
                   peltier_forward |-> peltier_forward],
      report |-> report, dt |-> dt_arg, clock |-> clock, prev |-> prev_state,
      config |-> config, tune |-> tune, dt_used |-> dt, integrated |-> integrated,
      temp_sma |-> temp_sma, moist_sma |-> moist_sma, disabled |-> disabled,
      raw_temp_error |-> config.target_inner_temp * Scale - filt_temp,
      temp_error |-> temp_error, u_noI_temp |-> u_noI_temp, I_temp |-> aw.I_temp,
      peltier_u |-> peltier_u]

\* rout before the first call
NoCall == [command |-> [pump_level |-> 0, peltier_level |-> 0, peltier_forward |-> 0]]

(* ------------------------------- is_alive ----------------------------- *)
is_alive ==
  IF ser = 0 \/ ~aliveFlag THEN FALSE
  ELSE now - lastHeartbeat < heartbeat_timeout

(* -------------------------------- Init -------------------------------- *)
\* PacketConnection.__init__
LinkInit ==
  /\ ser = 0
  /\ serState = <<>>
  /\ readerTask = 0
  /\ heartbeatTask = 0
  /\ tasks = <<>>
  /\ queue = <<>>
  /\ lastHeartbeat = 0
  /\ aliveFlag = FALSE
  /\ now = 0
  /\ openWait = 0
  /\ closeWait = <<>>
  /\ rpWait = NoRead
  /\ sndBusy = 0
  /\ nRead = 0
  /\ enqueued = <<>>
  /\ delivered = <<>>
  /\ linkOpen = FALSE
  /\ openTime = -1
  /\ hbTime = -1
  /\ ev = NoEv

\* the reconciler before its first call
FreshReconciler ==
  /\ rstate = DefaultState
  /\ rsamples = <<>>
  /\ rout = NoCall

\* read_task not started; last_report, last_command and last_time of main.py;
\* cancel: task.cancel() was called and CancelledError is still to be raised
\* in read_task; life: where lifespan is
OrchInit ==
  [pc |-> "start", packet |-> <<>>, last_report |-> <<>>, last_command |-> <<>>,
   last_time |-> 0, raised |-> "", log |-> <<>>, cancel |-> FALSE, life |-> "serving"]

\* the link as constructed; the reconciler's data as main.py creates them
Init ==
  /\ LinkInit
  /\ rtune = DefaultTune
  /\ rconfig = DefaultConfig
  /\ FreshReconciler
  /\ orch = OrchInit

InFlight == openWait + Len(closeWait)

TransportBroken == ser # 0 /\ serState[ser] = "broken"

\* the link is open, its transport has failed for good, and the reader is in
\* the backoff of its exception handler after a read of it raised
ReaderStopped ==
  /\ linkOpen
  /\ TransportBroken
  /\ readerTask # 0
  /\ tasks[readerTask].pc = "backoff"
  /\ tasks[readerTask].io = ser

NewTask(kind) == [kind |-> kind, pc |-> "new", io |-> 0, cancel |-> FALSE, failed |-> FALSE]

\* tasks ever created: two by each open() that gets past its sleep
MaxTasks == 2 * MaxSer

(* -------------------------------- open -------------------------------- *)
\* open() up to its asyncio.sleep(0.5): returns at once when self.ser is set,
\* else creates the transport (the constructor may raise) and suspends.
OpenBegin ==
  /\ InFlight < MaxInFlight
  /\ \/ /\ ser # 0
        /\ ev' = Ev("open_return", <<>>, "", <<>>)
        /\ UNCHANGED <<conn, now, openWait, closeWait, rpWait, sndBusy, nRead, hist>>
     \/ /\ ser = 0
        /\ ev' = Ev("open_failed", <<>>, "SerialException", <<>>)
        /\ UNCHANGED <<conn, now, openWait, closeWait, rpWait, sndBusy, nRead, hist>>
     \/ /\ ser = 0
        /\ Len(serState) < MaxSer
        /\ serState' = Append(serState, "open")
        /\ ser' = Len(serState) + 1
        /\ openWait' = openWait + 1
        /\ ev' = Ev("open_wait", <<>>, "", <<>>)
        /\ UNCHANGED <<readerTask, heartbeatTask, tasks, queue, lastHeartbeat, aliveFlag,
                       now, closeWait, rpWait, sndBusy, nRead, hist>>

\* open() called by any caller of the link
OpenCall == OpenBegin /\ UNCHANGED app

\* open() after the sleep: buffers reset (when self.ser is still set), time
\* stamp, alive flag, and the two tasks created.
OpenDone ==
  /\ openWait > 0
  /\ openWait' = openWait - 1
  /\ lastHeartbeat' = now
  /\ aliveFlag' = TRUE
  /\ tasks' = tasks \o <<NewTask("reader"), NewTask("hb")>>
  /\ readerTask' = Len(tasks) + 1
  /\ heartbeatTask' = Len(tasks) + 2
  /\ linkOpen' = (ser # 0)
  /\ openTime' = now
  /\ ev' = Ev("open_done", <<>>, "", <<>>)
  /\ UNCHANGED <<ser, serState, queue, now, closeWait, rpWait, sndBusy, nRead,
                 enqueued, delivered, hbTime>>

\* open() resumed, for any caller of the link
OpenResume == OpenDone /\ UNCHANGED app

(* -------------------------------- close ------------------------------- *)
Cancel(tks, t) ==
  IF tks[t].pc = "done" THEN tks ELSE [tks EXCEPT ![t].cancel = TRUE]

\* CloseTail without the "if self.ser:" guard: None has no close()
CloseTailUnguarded(pre) ==
  /\ serState' = IF ser # 0 THEN [serState EXCEPT ![ser] = "closed"] ELSE serState
  /\ ser' = 0
  /\ aliveFlag' = IF ser # 0 THEN FALSE ELSE aliveFlag
  /\ linkOpen' = FALSE
  /\ ev' = Ev("close_done", pre, IF ser # 0 THEN "" ELSE "AttributeError", <<>>)

\* close() from "if self.ser:" to its end
CloseTail(pre) ==
  /\ serState' = IF ser # 0 THEN [serState EXCEPT ![ser] = "closed"] ELSE serState
  /\ ser' = 0
  /\ aliveFlag' = FALSE
  /\ linkOpen' = FALSE
  /\ ev' = Ev("close_done", pre, "", <<>>)

\* close() from "if self._heartbeat_task:"; cw is the calls still suspended
CloseHeartbeat(cw, pre) ==
  IF heartbeatTask # 0 /\ tasks[heartbeatTask].pc # "done"
  THEN /\ tasks' = Cancel(tasks, heartbeatTask)
       /\ closeWait' = Append(cw, [stage |-> "hb", task |-> heartbeatTask])
       /\ ev' = Ev("close_wait", pre, "", <<>>)
       /\ UNCHANGED <<ser, serState, heartbeatTask, aliveFlag, linkOpen>>
  ELSE /\ heartbeatTask' = 0
       /\ tasks' = tasks
       /\ closeWait' = cw
       /\ CloseTail(pre)

\* the connection is as __init__ or a completed close() leaves it
Closed == ser = 0 /\ readerTask = 0 /\ heartbeatTask = 0

\* close() called: runs to its first await of a task that has not finished
CloseBegin ==
  /\ InFlight < MaxInFlight
  /\ LET pre == IF Closed THEN <<"closed">> ELSE <<"open">> IN
     IF readerTask # 0 /\ tasks[readerTask].pc # "done"
     THEN /\ tasks' = Cancel(tasks, readerTask)
          /\ closeWait' = Append(closeWait, [stage |-> "reader", task |-> readerTask])
          /\ ev' = Ev("close_wait", pre, "", <<>>)
          /\ UNCHANGED <<ser, serState, readerTask, heartbeatTask, aliveFlag, linkOpen>>
     ELSE /\ readerTask' = 0
          /\ CloseHeartbeat(closeWait, pre)
  /\ UNCHANGED <<queue, lastHeartbeat, now, openWait, rpWait, sndBusy, nRead,
                 enqueued, delivered, openTime, hbTime>>

\* close() called by any caller of the link
CloseCall == CloseBegin /\ UNCHANGED app

Remove(s, i) == SubSeq(s, 1, i - 1) \o SubSeq(s, i + 1, Len(s))

\* close() resumed: the task it awaits has finished
CloseDone ==
  \E i \in 1..Len(closeWait) :
    /\ tasks[closeWait[i].task].pc = "done"
    /\ IF closeWait[i].stage = "reader"
       THEN /\ readerTask' = 0
            /\ CloseHeartbeat(Remove(closeWait, i), <<"open">>)
       ELSE /\ heartbeatTask' = 0
            /\ tasks' = tasks
            /\ closeWait' = Remove(closeWait, i)
            /\ CloseTail(<<"open">>)
            /\ UNCHANGED readerTask
    /\ UNCHANGED <<queue, lastHeartbeat, now, openWait, rpWait, sndBusy, nRead,
                   enqueued, delivered, openTime, hbTime>>

\* close() resumed, for any caller of the link
CloseResume == CloseDone /\ UNCHANGED app

(* ------------------------------- workers ------------------------------ *)
\* asyncio.Queue: put at the tail, get from the head
QueuePut(q, pkt) == Append(q, pkt)
\* a get from the tail
QueueGetLast(q) == [item |-> q[Len(q)], rest |-> SubSeq(q, 1, Len(q) - 1)]
QueueGet(q) == [item |-> Head(q), rest |-> Tail(q)]

\* A cancelled task gets CancelledError at its await and ends.
TaskCancelledOf(t) ==
  /\ t \in 1..Len(tasks)
  /\ tasks[t].cancel
  /\ tasks[t].pc # "done"
  /\ tasks' = [tasks EXCEPT ![t].pc = "done", ![t].io = 0]
  /\ ev' = Ev("task_cancelled", <<t>>, "", <<>>)
  /\ UNCHANGED <<ser, serState, readerTask, heartbeatTask, queue, lastHeartbeat,
                 aliveFlag, now, openWait, closeWait, rpWait, sndBusy, nRead, hist, app>>

TaskCancelled == \E t \in 1..Len(tasks) : TaskCancelledOf(t)

\* The top of the reader's loop: stop when self.ser is None, else readline.
ReaderLoopTop(tks, t) ==
  IF ser = 0 THEN [tks EXCEPT ![t].pc = "done", ![t].io = 0]
  ELSE [tks EXCEPT ![t].pc = "read", ![t].io = ser]

\* The reader starts, or wakes from one of its sleeps.
ReaderWake ==
  \E t \in 1..Len(tasks) :
    /\ tasks[t].kind = "reader"
    /\ tasks[t].pc \in {"new", "sleep", "backoff"}
    /\ ~tasks[t].cancel
    /\ tasks' = ReaderLoopTop(tasks, t)
    /\ ev' = Ev("reader_wake", <<t>>, "", <<>>)
    /\ UNCHANGED <<ser, serState, readerTask, heartbeatTask, queue, lastHeartbeat,
                   aliveFlag, now, openWait, closeWait, rpWait, sndBusy, nRead, hist, app>>

\* readline_async returns nothing (its timeout) or raises.
ReaderNoLine ==
  \E t \in 1..Len(tasks) :
    /\ tasks[t].kind = "reader"
    /\ tasks[t].pc = "read"
    /\ ~tasks[t].cancel
    /\ IF serState[tasks[t].io] = "open"
       THEN /\ tasks' = [tasks EXCEPT ![t].pc = "sleep", ![t].io = 0]
            /\ ev' = Ev("read_empty", <<t>>, "", <<>>)
       ELSE /\ tasks' = [tasks EXCEPT ![t].pc = "backoff"]
            /\ ev' = Ev("read_error", <<t>>, "SerialException", <<>>)
    /\ UNCHANGED <<ser, serState, readerTask, heartbeatTask, queue, lastHeartbeat,
                   aliveFlag, now, openWait, closeWait, rpWait, sndBusy, nRead, hist, app>>

\* readline_async returns a line: the loop body up to the next await.
ReaderLine ==
  \E t \in 1..Len(tasks), line \in Lines, light \in LightOutcomes :
    /\ tasks[t].kind = "reader"
    /\ tasks[t].pc = "read"
    /\ ~tasks[t].cancel
    /\ serState[tasks[t].io] = "open"
    /\ nRead < MaxLines
    /\ nRead' = nRead + 1
    /\ LET h == HandleLine(line, light) IN
       /\ tasks' = IF h.act = "raise"
                   THEN [tasks EXCEPT ![t].pc = "backoff", ![t].io = 0]
                   ELSE ReaderLoopTop(tasks, t)
       /\ lastHeartbeat' = IF h.act = "heartbeat" THEN now ELSE lastHeartbeat
       /\ hbTime' = IF IsHeartbeatLine(line) THEN now ELSE hbTime
       /\ queue' = IF h.act = "put" THEN QueuePut(queue, h.pkt) ELSE queue
       /\ enqueued' = IF h.act = "put" THEN Append(enqueued, h.pkt) ELSE enqueued
       /\ ev' = Ev("line", line, h.act, <<t>>)
    /\ UNCHANGED <<ser, serState, readerTask, heartbeatTask, aliveFlag, now, openWait,
                   closeWait, rpWait, sndBusy, delivered, linkOpen, openTime, app>>

\* The heartbeat sender starts or wakes: send_heartbeat up to write_async.
HeartbeatWakeOf(t) ==
  /\ t \in 1..Len(tasks)
  /\ tasks[t].kind = "hb"
  /\ tasks[t].pc \in {"new", "sleep", "backoff"}
  /\ ~tasks[t].cancel
  /\ IF ser = 0
     THEN /\ tasks' = [tasks EXCEPT ![t].pc = "backoff", ![t].io = 0]
          /\ ev' = Ev("hb_error", <<t>>, "RuntimeError", <<>>)
     ELSE /\ tasks' = [tasks EXCEPT ![t].pc = "write", ![t].io = ser]
          /\ ev' = Ev("hb_write", <<t>>, "", <<<<KIND_HEARTBEAT>>>>)
  /\ UNCHANGED <<ser, serState, readerTask, heartbeatTask, queue, lastHeartbeat,
                 aliveFlag, now, openWait, closeWait, rpWait, sndBusy, nRead, hist, app>>

HeartbeatWake == \E t \in 1..Len(tasks) : HeartbeatWakeOf(t)

\* the handler "except Exception" of the sender with a break in place of the
\* sleep and continue: a write that raised ends the task
HeartbeatAfterWriteEnds(okay) == IF okay THEN "sleep" ELSE "done"

\* where the sender goes after write_async: the sleep of half the timeout, or
\* the sleep of its exception handler
HeartbeatAfterWrite(okay) == IF okay THEN "sleep" ELSE "backoff"

\* write_async of the heartbeat returns or raises.
HeartbeatWrittenOf(t) ==
  \E okay \in BOOLEAN :
    /\ t \in 1..Len(tasks)
    /\ tasks[t].kind = "hb"
    /\ tasks[t].pc = "write"
    /\ ~tasks[t].cancel
    /\ okay => serState[tasks[t].io] = "open"
    /\ tasks' = [tasks EXCEPT ![t].pc = HeartbeatAfterWrite(okay), ![t].io = 0,
                              ![t].failed = @ \/ ~okay]
    /\ ev' = Ev("hb_written", <<t>>, IF okay THEN "" ELSE "SerialException", <<>>)
    /\ UNCHANGED <<ser, serState, readerTask, heartbeatTask, queue, lastHeartbeat,
                   aliveFlag, now, openWait, closeWait, rpWait, sndBusy, nRead, hist, app>>

HeartbeatWritten == \E t \in 1..Len(tasks) : HeartbeatWrittenOf(t)

(* ------------------------------ environment --------------------------- *)
Tick ==
  /\ now < MaxTime
  /\ now' = now + 1
  /\ ev' = NoEv
  /\ UNCHANGED <<conn, openWait, closeWait, rpWait, sndBusy, nRead, hist, app>>

\* The device is unplugged: the transport fails for good.
TransportBreaks ==
  \E s \in 1..Len(serState) :
    /\ serState[s] = "open"
    /\ serState' = [serState EXCEPT ![s] = "broken"]
    /\ ev' = NoEv
    /\ UNCHANGED <<ser, readerTask, heartbeatTask, tasks, queue, lastHeartbeat, aliveFlag,
                   now, openWait, closeWait, rpWait, sndBusy, nRead, hist, app>>

(* ----------------------------- read_packet ---------------------------- *)
\* read_packet called: raises when self.ser is None, returns the head of a
\* queue that is not empty, else suspends in wait_for(queue.get(), deadline).
ReadPacketCall ==
  /\ rpWait = NoRead
  /\ sndBusy = 0
  /\ IF ser = 0
     THEN /\ ev' = Ev("read_packet", <<now, FALSE>>, "RuntimeError", <<>>)
          /\ UNCHANGED <<queue, delivered, rpWait>>
     ELSE IF queue # <<>>
     THEN /\ queue' = QueueGet(queue).rest
          /\ delivered' = Append(delivered, QueueGet(queue).item)
          /\ ev' = Ev("read_packet", <<now, ReaderStopped>>, "packet", <<QueueGet(queue).item>>)
          /\ UNCHANGED rpWait
     ELSE /\ rpWait' = [t0 |-> now, stopped |-> ReaderStopped]
          /\ ev' = Ev("read_packet_wait", <<>>, "", <<>>)
          /\ UNCHANGED <<queue, delivered>>
  /\ UNCHANGED <<ser, serState, readerTask, heartbeatTask, tasks, lastHeartbeat, aliveFlag,
                 now, openWait, closeWait, sndBusy, nRead, enqueued, linkOpen, openTime,
                 hbTime, app>>

\* the suspended read_packet gets a packet
ReadPacketGet ==
  /\ rpWait # NoRead
  /\ queue # <<>>
  /\ queue' = QueueGet(queue).rest
  /\ delivered' = Append(delivered, QueueGet(queue).item)
  /\ rpWait' = NoRead
  /\ ev' = Ev("read_packet", <<rpWait.t0, rpWait.stopped>>, "packet", <<QueueGet(queue).item>>)
  /\ UNCHANGED <<ser, serState, readerTask, heartbeatTask, tasks, lastHeartbeat, aliveFlag,
                 now, openWait, closeWait, sndBusy, nRead, enqueued, linkOpen, openTime,
                 hbTime, app>>

\* wait_for times out: read_packet returns None
ReadPacketTimeout ==
  /\ rpWait # NoRead
  /\ queue = <<>>
  /\ now >= rpWait.t0 + deadline_sec
  /\ rpWait' = NoRead
  /\ ev' = Ev("read_packet", <<rpWait.t0, rpWait.stopped>>, "None", <<>>)
  /\ UNCHANGED <<conn, now, openWait, closeWait, sndBusy, nRead, hist, app>>

(* ------------------------------ send helpers -------------------------- *)
Levels == {-1, 0, 512, MaxLevel, MaxLevel + 1}
Forwards == {-1, 0, 1, 2}
SendArgs ==
  {<<"pump", l, 0>> : l \in Levels} \cup {<<"fans", l, 0>> : l \in Levels}
    \cup {<<"peltier", l, f>> : l \in Levels, f \in Forwards}

\* the range check with its upper bound off by one
ValidLevelLoose(level) == 0 <= level /\ level <= MaxLevel + 1

\* the range checks of send_pump, send_peltier and send_fans
ValidLevel(level) == 0 <= level /\ level <= MaxLevel
SendValid(a) ==
  IF a[1] = "peltier" THEN ValidLevel(a[2]) /\ a[3] \in {0, 1} ELSE ValidLevel(a[2])

\* the fields each helper hands to _send_fields
SendFields(a) ==
  CASE a[1] = "pump" -> <<KIND_CMD_PUMP, a[2]>>
    [] a[1] = "peltier" -> <<KIND_CMD_PELTIER, a[2], a[3]>>
    [] OTHER -> <<KIND_CMD_FANS, a[2]>>

\* _send_fields: the fields joined by commas, and the newline
WireLine(fields) == [fields |-> fields, eol |-> "\n"]

\* send_pump / send_peltier / send_fans called: up to the await of write_async
SendCall ==
  \E a \in SendArgs :
    /\ rpWait = NoRead
    /\ sndBusy = 0
    /\ IF ~SendValid(a)
       THEN /\ ev' = Ev("send", a, "ValueError", <<>>)
            /\ UNCHANGED sndBusy
       ELSE IF ser = 0
       THEN /\ ev' = Ev("send", a, "RuntimeError", <<>>)
            /\ UNCHANGED sndBusy
       ELSE /\ sndBusy' = ser
            /\ ev' = Ev("send", a, "written", <<WireLine(SendFields(a))>>)
    /\ UNCHANGED <<conn, now, openWait, closeWait, rpWait, nRead, hist, app>>

\* write_async returns or raises
SendWritten ==
  \E okay \in BOOLEAN :
    /\ sndBusy # 0
    /\ okay => serState[sndBusy] = "open"
    /\ sndBusy' = 0
    /\ ev' = Ev("send_done", <<>>, IF okay THEN "" ELSE "SerialException", <<>>)
    /\ UNCHANGED <<conn, now, openWait, closeWait, rpWait, nRead, hist, app>>

(* --------------------------- reconcile calls -------------------------- *)
\* One call of reconcile_sensor_data with the state of the call before, as
\* process_report threads it; dt and the time of day are the caller's clock.
ReconcileCall(reports, dts, clocks) ==
  \E report \in reports, dt \in dts, clock \in clocks :
    /\ Len(rsamples) < MaxCalls
    /\ rstate' = reconcile_sensor_data(rstate, rconfig, rtune, report, dt, clock).state
    /\ rout' = reconcile_sensor_data(rstate, rconfig, rtune, report, dt, clock)
    /\ rsamples' = Append(rsamples, report)
    /\ UNCHANGED <<rtune, rconfig, orch, link>>

Report(moisture, temp_inner) == [moisture |-> moisture, temp_inner |-> temp_inner]
Noon == dt_time(12, 0)

\* tunes for the temperature channel: the defaults, an integral gain above 1,
\* no integral gain, a cutoff above the range, and filters of every kind
PeltierTunes ==
  {DefaultTune,
   [DefaultTune EXCEPT !.peltier_Ki = 3 * Scale],
   [DefaultTune EXCEPT !.peltier_Ki = 0],
   [DefaultTune EXCEPT !.cutoff = 1024],
   [DefaultTune EXCEPT !.temp_ema_alpha = Scale, !.moisture_ema_alpha = Scale,
                       !.temp_ema_count = 2, !.moisture_ema_count = 2],
   [DefaultTune EXCEPT !.temp_ema_alpha = 0, !.moisture_ema_alpha = 0,
                       !.temp_ema_count = 0, !.moisture_ema_count = 0],
   [DefaultTune EXCEPT !.temp_ema_alpha = Scale + Scale \div 2,
                       !.moisture_ema_alpha = Scale + Scale \div 2],
   [DefaultTune EXCEPT !.temp_ema_alpha = -(Scale \div 2),
                       !.moisture_ema_alpha = -(Scale \div 2)]}
PeltierReports == {Report(m, t) : m \in {10, 40}, t \in {20, 17, 22, 45, 2}}
PeltierDts == {0, Scale}

InitPeltier ==
  /\ LinkInit
  /\ orch = OrchInit
  /\ rtune \in PeltierTunes
  /\ rconfig = DefaultConfig
  /\ FreshReconciler

ReconcilePeltier == ReconcileCall(PeltierReports, PeltierDts, {Noon})

\* The reconciler called in a row, the temperature channel exercised.
NextPeltier == ReconcilePeltier

SpecPeltier == InitPeltier /\ [][NextPeltier]_vars

\* configurations and tunes for the pump: disable windows (none, one that
\* passes midnight, one that does not, both, an empty one) and cutoffs
PumpConfigs ==
  {[DefaultConfig EXCEPT !.pump_disable_times = w] :
     w \in {<<>>, <<<<22, 0, 6, 0>>>>, <<<<9, 0, 17, 0>>>>,
            <<<<9, 0, 17, 0>>, <<22, 0, 6, 0>>>>, <<<<12, 0, 12, 0>>>>}}
PumpTunes ==
  {DefaultTune,
   [DefaultTune EXCEPT !.cutoff = 1023],
   [DefaultTune EXCEPT !.cutoff = 1024],
   [DefaultTune EXCEPT !.moisture_ema_alpha = Scale, !.moisture_ema_count = 2]}
PumpReports == {Report(m, 20) : m \in {10, 19, 40, 62}}
PumpClocks ==
  {Noon, dt_time(23, 0), dt_time(23, 30), dt_time(5, 30), dt_time(6, 0), dt_time(22, 0),
   dt_time(9, 0), dt_time(17, 0)}

InitPump ==
  /\ LinkInit
  /\ orch = OrchInit
  /\ rtune \in PumpTunes
  /\ rconfig \in PumpConfigs
  /\ FreshReconciler

ReconcilePump == ReconcileCall(PumpReports, {Scale}, PumpClocks)

\* The reconciler called in a row, the pump channel and the clock exercised.
NextPump == ReconcilePump

SpecPump == InitPump /\ [][NextPump]_vars

(* ----------------------------- orchestrator --------------------------- *)
(* read_task of src/main.py: "async with PacketConnection(PORT) as link",    *)
(* then the loop over read_packet.  Each action is its code between two      *)
(* awaits, the code of the link's methods it calls included.                 *)

\* time.time(): seconds since the epoch, never 0
wall_time == now + 1

\* process_report: the reconcile call with the defaults it constructs
process_report(new_report, last_time) ==
  reconcile_sensor_data(rstate, DefaultConfig, DefaultTune, new_report,
                        IF last_time > 0 THEN (wall_time - last_time) * Scale
                        ELSE Scale \div 1000,
                        Noon)

Logged(o, e, v) == [o EXCEPT !.log = Append(@, [e |-> e, v |-> v])]
Raised(o, exc) == [o EXCEPT !.pc = "exit", !.raised = exc]

\* a send helper called by read_task: the range check, the check of self.ser,
\* then the await of write_async at position pc
OrchSend(o, a, pc) ==
  IF ~SendValid(a) THEN [orch |-> Raised(o, "ValueError"), snd |-> 0]
  ELSE IF ser = 0 THEN [orch |-> Raised(o, "RuntimeError"), snd |-> 0]
  ELSE [orch |-> [Logged(o, "send", a) EXCEPT !.pc = pc], snd |-> ser]

\* the fans never turned on
FanLevelOff(command) == 0

\* apply_control_command of the mock server: the control state it sets
apply_control_command(command) ==
  [pump_level |-> command.pump_level,
   peltier_level |-> command.peltier_level,
   peltier_forward |-> command.peltier_forward,
   fan_level |-> IF command.peltier_level >= 64 THEN 1023 ELSE 0]

\* the fan level read_task sends for a command
FanLevel(command) == IF command.peltier_level >= 64 THEN 1023 ELSE 0

\* the body of the loop for the value v read_packet returned, up to its next
\* await: the new orch, the reconcile call made (<<>>: none), the write begun
OrchHandle(o, v) ==
  IF v[1] = KIND_SENSOR_REPORT
  THEN IF o.last_report # <<>>
       THEN LET r == process_report(v[2], o.last_time)
                called == [Logged(o, "reconcile", <<v[2], r.command>>) EXCEPT
                             !.packet = <<v[2]>>, !.last_command = <<r.command>>,
                             !.last_time = wall_time]
                sent == OrchSend(called, <<"pump", r.command.pump_level, 0>>, "pump")
            IN [orch |-> sent.orch, call |-> <<r>>, snd |-> sent.snd]
       ELSE [orch |-> [o EXCEPT !.pc = "loop", !.last_report = <<v[2]>>],
             call |-> <<>>, snd |-> 0]
  ELSE [orch |-> Raised(o, "AttributeError"), call |-> <<>>, snd |-> 0]

\* the effect of one pass of the loop body on the variables
OrchApply(h) ==
  /\ orch' = h.orch
  /\ sndBusy' = h.snd
  /\ IF h.call = <<>>
     THEN UNCHANGED <<rstate, rout, rsamples>>
     ELSE /\ rstate' = h.call[1].state
          /\ rout' = h.call[1]
          /\ rsamples' = Append(rsamples, h.call[1].report)

\* the orchestrator's variables that open() and close() do not touch
OrchData == <<rtune, rconfig, rstate, rsamples, rout>>

\* "async with": __aenter__ calls open(); an exception of it ends read_task
OrchEnter ==
  /\ orch.pc = "start"
  /\ OpenBegin
  /\ orch' = IF ev'.type = "open_wait" THEN [orch EXCEPT !.pc = "enter"]
             ELSE IF ev'.type = "open_failed"
             THEN [orch EXCEPT !.pc = "ended", !.raised = ev'.res]
             ELSE [orch EXCEPT !.pc = "loop"]
  /\ UNCHANGED OrchData

OrchEntered ==
  /\ orch.pc = "enter"
  /\ ~orch.cancel
  /\ OpenDone
  /\ orch' = [orch EXCEPT !.pc = "loop"]
  /\ UNCHANGED OrchData

\* read_packet called at the top of the loop
OrchReadPacket ==
  /\ orch.pc = "loop"
  /\ ~orch.cancel
  /\ sndBusy = 0
  /\ IF ser = 0
     THEN /\ orch' = Raised(orch, "RuntimeError")
          /\ ev' = Ev("read_packet", <<now, FALSE>>, "RuntimeError", <<>>)
          /\ UNCHANGED <<queue, delivered, rpWait, sndBusy, rstate, rout, rsamples>>
     ELSE IF queue # <<>>
     THEN /\ queue' = QueueGet(queue).rest
          /\ delivered' = Append(delivered, QueueGet(queue).item)
          /\ ev' = Ev("read_packet", <<now, ReaderStopped>>, "packet", <<QueueGet(queue).item>>)
          /\ OrchApply(OrchHandle(Logged(orch, "packet", QueueGet(queue).item),
                                  QueueGet(queue).item))
          /\ UNCHANGED rpWait
     ELSE /\ rpWait' = [t0 |-> now, stopped |-> ReaderStopped]
          /\ orch' = [orch EXCEPT !.pc = "read"]
          /\ ev' = Ev("read_packet_wait", <<>>, "", <<>>)
          /\ UNCHANGED <<queue, delivered, sndBusy, rstate, rout, rsamples>>
  /\ UNCHANGED <<ser, serState, readerTask, heartbeatTask, tasks, lastHeartbeat, aliveFlag,
                 now, openWait, closeWait, nRead, enqueued, linkOpen, openTime, hbTime,
                 rtune, rconfig>>

\* the suspended read_packet gets a packet
OrchPacket ==
  /\ orch.pc = "read"
  /\ ~orch.cancel
  /\ queue # <<>>
  /\ queue' = QueueGet(queue).rest
  /\ delivered' = Append(delivered, QueueGet(queue).item)
  /\ rpWait' = NoRead
  /\ ev' = Ev("read_packet", <<rpWait.t0, rpWait.stopped>>, "packet", <<QueueGet(queue).item>>)
  /\ OrchApply(OrchHandle(Logged(orch, "packet", QueueGet(queue).item),
                          QueueGet(queue).item))
  /\ UNCHANGED <<ser, serState, readerTask, heartbeatTask, tasks, lastHeartbeat, aliveFlag,
                 now, openWait, closeWait, nRead, enqueued, linkOpen, openTime, hbTime,
                 rtune, rconfig>>

\* the suspended read_packet times out: None, and "continue"
OrchTimeout ==
  /\ orch.pc = "read"
  /\ ~orch.cancel
  /\ queue = <<>>
  /\ now >= rpWait.t0 + deadline_sec
  /\ rpWait' = NoRead
  /\ orch' = [orch EXCEPT !.pc = "loop"]
  /\ ev' = Ev("read_packet", <<rpWait.t0, rpWait.stopped>>, "None", <<>>)
  /\ UNCHANGED <<conn, now, openWait, closeWait, sndBusy, nRead, hist, rtune, rconfig,
                 rstate, rsamples, rout>>

\* what follows a write_async that returned, up to the next await
OrchAfterWrite(o) ==
  CASE o.pc = "pump" ->
         OrchSend(o, <<"peltier", o.last_command[1].peltier_level,
                       o.last_command[1].peltier_forward>>, "peltier")
    [] o.pc = "peltier" ->
         OrchSend(o, <<"fans", FanLevel(o.last_command[1]), 0>>, "fans")
    [] o.pc = "fans" ->
         IF o.last_command[1].pump_level > 0
         THEN [orch |-> [o EXCEPT !.pc = "pump_sleep"], snd |-> 0]
         ELSE [orch |-> [o EXCEPT !.pc = "loop", !.last_report = o.packet], snd |-> 0]
    [] OTHER ->
         [orch |-> [o EXCEPT !.pc = "loop", !.last_report = o.packet], snd |-> 0]

\* write_async of a send of read_task returns or raises
OrchWritten ==
  \E okay \in BOOLEAN :
    /\ orch.pc \in {"pump", "peltier", "fans", "pump_off"}
    /\ ~orch.cancel
    /\ sndBusy # 0
    /\ okay => serState[sndBusy] = "open"
    /\ IF okay
       THEN /\ orch' = OrchAfterWrite(orch).orch
            /\ sndBusy' = OrchAfterWrite(orch).snd
       ELSE /\ orch' = Raised(orch, "SerialException")
            /\ sndBusy' = 0
    /\ ev' = Ev("send_done", <<>>, IF okay THEN "" ELSE "SerialException", <<>>)
    /\ UNCHANGED <<conn, now, openWait, closeWait, rpWait, nRead, hist, rtune, rconfig,
                   rstate, rsamples, rout>>

\* asyncio.sleep(1.0) after the sends of a command that turned the pump on,
\* then send_pump(0)
OrchPumpOff ==
  /\ orch.pc = "pump_sleep"
  /\ ~orch.cancel
  /\ orch' = OrchSend(orch, <<"pump", 0, 0>>, "pump_off").orch
  /\ sndBusy' = OrchSend(orch, <<"pump", 0, 0>>, "pump_off").snd
  /\ ev' = Ev("send", <<"pump", 0, 0>>, "written", <<WireLine(SendFields(<<"pump", 0, 0>>))>>)
  /\ UNCHANGED <<conn, now, openWait, closeWait, rpWait, nRead, hist, rtune, rconfig,
                 rstate, rsamples, rout>>

\* an exception leaves the loop: __aexit__ calls close(), and read_task ends
\* when close() has returned
OrchExit ==
  /\ orch.pc = "exit"
  /\ CloseBegin
  /\ orch' = [orch EXCEPT !.pc = IF ev'.type = "close_wait" THEN "closing" ELSE "ended"]
  /\ UNCHANGED OrchData

OrchExited ==
  /\ orch.pc = "closing"
  /\ ~orch.cancel
  /\ CloseDone
  /\ orch' = [orch EXCEPT !.pc = IF ev'.type = "close_wait" THEN "closing" ELSE "ended"]
  /\ UNCHANGED OrchData

\* read_task on its link, with the link's reader and the clock
NextOrch ==
  \/ OrchEnter
  \/ OrchEntered
  \/ OrchReadPacket
  \/ OrchPacket
  \/ OrchTimeout
  \/ OrchWritten
  \/ OrchPumpOff
  \/ OrchExit
  \/ OrchExited
  \/ TaskCancelled
  \/ ReaderWake
  \/ ReaderNoLine
  \/ ReaderLine
  \/ Tick

SpecOrch == Init /\ [][NextOrch]_vars

(* lifespan of src/main.py after its yield: task.cancel(), the zero commands *)
(* through a second PacketConnection on the same port when a command was     *)
(* computed, then the await of read_task.  The second connection is followed *)
(* through its open(), its three writes and its close(); its own reader and  *)
(* heartbeat sender are left out.                                            *)

\* task.cancel() and the code up to the next await.  read_task is suspended at
\* one of its awaits, or has ended.
LifespanShutdown ==
  \E okay \in BOOLEAN :
    /\ orch.life = "serving"
    /\ orch.pc \notin {"start", "exit"}
    /\ okay \/ orch.last_command # <<>>
    /\ orch' = [Logged(orch, "shutdown", <<>>) EXCEPT
                  !.cancel = (orch.pc # "ended"),
                  !.life = IF orch.last_command = <<>> THEN "await_task"
                           ELSE IF okay THEN "zero_open" ELSE "raised"]
    /\ UNCHANGED <<link, OrchData>>

\* CancelledError raised in read_task at the await it is suspended in: in
\* open() (no __aexit__ follows, the transport stays open), in close() called
\* by __aexit__ (abandoned), or in the loop (__aexit__ follows)
OrchCancelled ==
  /\ orch.cancel
  /\ orch.pc \notin {"start", "exit", "ended"}
  /\ orch' = [orch EXCEPT !.cancel = FALSE, !.raised = "CancelledError",
                          !.pc = IF orch.pc \in {"enter", "closing"} THEN "ended" ELSE "exit"]
  /\ openWait' = IF orch.pc = "enter" THEN openWait - 1 ELSE openWait
  /\ closeWait' = IF orch.pc = "closing" THEN <<>> ELSE closeWait
  /\ rpWait' = NoRead
  /\ sndBusy' = 0
  /\ UNCHANGED <<conn, now, nRead, hist, ev, OrchData>>

\* open() of the second connection returns; send_pump(0) begins its write
LifespanZeroOpened ==
  /\ orch.life = "zero_open"
  /\ orch' = [Logged(orch, "send", <<"pump", 0, 0>>) EXCEPT !.life = "zero_pump"]
  /\ UNCHANGED <<link, OrchData>>

\* a write of the second connection returns or raises; an exception leaves
\* the "async with" and lifespan
LifespanZeroWritten ==
  \E okay \in BOOLEAN :
    /\ orch.life \in {"zero_pump", "zero_peltier", "zero_fans"}
    /\ orch' = IF ~okay THEN [orch EXCEPT !.life = "raised"]
               ELSE IF orch.life = "zero_pump"
               THEN [Logged(orch, "send", <<"peltier", 0, 0>>) EXCEPT !.life = "zero_peltier"]
               ELSE IF orch.life = "zero_peltier"
               THEN [Logged(orch, "send", <<"fans", 0, 0>>) EXCEPT !.life = "zero_fans"]
               ELSE [orch EXCEPT !.life = "zero_close"]
    /\ UNCHANGED <<link, OrchData>>

\* close() of the second connection returns
LifespanZeroClosed ==
  /\ orch.life = "zero_close"
  /\ orch' = [orch EXCEPT !.life = "await_task"]
  /\ UNCHANGED <<link, OrchData>>

\* "await task": CancelledError is swallowed, another exception of read_task
\* is raised again
LifespanAwaited ==
  /\ orch.life = "await_task"
  /\ orch.pc = "ended"
  /\ ~orch.cancel
  /\ orch' = [orch EXCEPT !.life = IF orch.raised = "CancelledError" THEN "done" ELSE "raised"]
  /\ UNCHANGED <<link, OrchData>>

\* read_task and the shutdown of the application
NextShutdown ==
  \/ NextOrch
  \/ LifespanShutdown
  \/ OrchCancelled
  \/ LifespanZeroOpened
  \/ LifespanZeroWritten
  \/ LifespanZeroClosed
  \/ LifespanAwaited

SpecShutdown == Init /\ [][NextShutdown]_vars

\* config.json and tune.json as main.py finds them at start-up: the defaults it
\* writes when a file is missing, or an operator's values (a pump disable
\* window over the working day, a Peltier gain of 80)
LoadedConfigs ==
  {DefaultConfig, [DefaultConfig EXCEPT !.pump_disable_times = <<<<9, 0, 17, 0>>>>]}
LoadedTunes ==
  {DefaultTune, [DefaultTune EXCEPT !.peltier_Kp = 80 * Scale]}

InitLoaded ==
  /\ LinkInit
  /\ rtune \in LoadedTunes
  /\ rconfig \in LoadedConfigs
  /\ FreshReconciler
  /\ orch = OrchInit

\* read_task started after reconciler_config and reconciler_tune were loaded
SpecLoaded == InitLoaded /\ [][NextOrch]_vars

(* ---------------------------- specifications -------------------------- *)
\* One caller awaits each open() and close() before its next call (the way
\* main.py uses the class, through "async with").
SerialLifecycle ==
  \/ (InFlight = 0 /\ OpenCall)
  \/ OpenResume
  \/ (InFlight = 0 /\ CloseCall)
  \/ CloseResume

\* The receiving side: the link's life, the reader, the clock and the consumer.
Next ==
  \/ SerialLifecycle
  \/ TaskCancelled
  \/ ReaderWake
  \/ ReaderNoLine
  \/ ReaderLine
  \/ Tick
  \/ TransportBreaks
  \/ ReadPacketCall
  \/ ReadPacketGet
  \/ ReadPacketTimeout

Spec == Init /\ [][Next]_vars

\* The sending side: the link's life and the send helpers.
NextSend ==
  \/ SerialLifecycle
  \/ TaskCancelled
  \/ TransportBreaks
  \/ SendCall
  \/ SendWritten

SpecSend == Init /\ [][NextSend]_vars

\* Any callers: open() and close() calls may overlap, with both workers running.
NextRace ==
  \/ OpenCall
  \/ OpenResume
  \/ CloseCall
  \/ CloseResume
  \/ TaskCancelled
  \/ ReaderWake
  \/ ReaderNoLine
  \/ HeartbeatWake
  \/ HeartbeatWritten
  \/ TransportBreaks

SpecRace == Init /\ [][NextRace]_vars

\* As SpecRace, with one caller that awaits each open() and close().
NextSerialWorkers ==
  \/ SerialLifecycle
  \/ TaskCancelled
  \/ ReaderWake
  \/ ReaderNoLine
  \/ HeartbeatWake
  \/ HeartbeatWritten
  \/ TransportBreaks

SpecSerialWorkers == Init /\ [][NextSerialWorkers]_vars

\* SpecRace with the event loop's scheduling: a task that is ready to run is
\* run, a cancelled task gets its CancelledError, a sleep and a write end.
WorkersFair ==
  \A t \in 1..MaxTasks :
    /\ WF_vars(TaskCancelledOf(t))
    /\ WF_vars(HeartbeatWakeOf(t))
    /\ WF_vars(HeartbeatWrittenOf(t))

SpecRaceFair == Init /\ [][NextRace]_vars /\ WorkersFair

\* Any callers, the reader and the clock: what is_alive() depends on.
NextAlive ==
  \/ OpenCall
  \/ OpenResume
  \/ CloseCall
  \/ CloseResume
  \/ TaskCancelled
  \/ ReaderWake
  \/ ReaderLine
  \/ Tick

SpecAlive == Init /\ [][NextAlive]_vars

(* ================================ claims =============================== *)
Max(a, b) == IF a >= b THEN a ELSE b

(* C1: a send helper called with a level in 0..1023 (and, for send_peltier,  *)
(* a forward flag of 0 or 1) on an open link hands exactly one line to the   *)
(* transport, "0,<level>" for the pump, "2,<level>" for the fans and         *)
(* "1,<level>,<forward>" for the peltier, ended by a newline; called with a  *)
(* level outside 0..1023 or another flag it raises ValueError and hands the  *)
(* transport nothing, whether the link is open or not.                       *)
C1_InRange(a) ==
  /\ a[2] \in 0..1023
  /\ a[1] = "peltier" => a[3] \in {0, 1}
C1_Line(a) ==
  [fields |-> CASE a[1] = "pump" -> <<0, a[2]>>
                [] a[1] = "fans" -> <<2, a[2]>>
                [] OTHER -> <<1, a[2], a[3]>>,
   eol |-> "\n"]
C1_SendValidation ==
  ev.type = "send" =>
    /\ (C1_InRange(ev.arg) /\ ser # 0) => (ev.res = "written" /\ ev.out = <<C1_Line(ev.arg)>>)
    /\ ~C1_InRange(ev.arg) => (ev.res = "ValueError" /\ ev.out = <<>>)
C1_Witness ==
  /\ ev.type = "send"
  /\ ev.arg = <<"peltier", 1023, 1>>
  /\ ev.out = <<[fields |-> <<1, 1023, 1>>, eol |-> "\n"]>>
  /\ Len(tasks) > 0

(* C3: an inbound heartbeat line (kind 9) sets the last-heartbeat timestamp  *)
(* to the time it was read and is not put on the queue: no packet ever put   *)
(* on the queue, and none read_packet returns, has kind 9.                   *)
C3_HeartbeatNotQueued ==
  /\ (ev.type = "line" /\ IsHeartbeatLine(ev.arg)) => lastHeartbeat = now
  /\ \A i \in 1..Len(enqueued) : enqueued[i][1] # 9
  /\ \A i \in 1..Len(queue) : queue[i][1] # 9
  /\ (ev.type = "read_packet" /\ ev.res = "packet") => ev.out[1][1] # 9
C3_Witness ==
  /\ ev.type = "line"
  /\ IsHeartbeatLine(ev.arg)
  /\ now > 0
  /\ Len(queue) = 1
  /\ lastHeartbeat = now

(* C4: a malformed inbound line (first field no integer, or a kind-0 line    *)
(* that has not exactly five fields or has a field that is no integer)       *)
(* leaves the queue, the last-heartbeat timestamp and is_alive() as they     *)
(* were, and the reader that read it does not end: it is reading again or in *)
(* the sleep it wakes from to read again.                                    *)
C4_Malformed(line) ==
  /\ Len(line) > 0
  /\ \/ ~line[1].isInt
     \/ /\ line[1] = IntF(0)
        /\ (Len(line) # 6 \/ \E i \in 2..Len(line) : ~line[i].isInt)
C4_MalformedDropped ==
  [][(ev'.type = "line" /\ C4_Malformed(ev'.arg)) =>
       /\ queue' = queue
       /\ enqueued' = enqueued
       /\ lastHeartbeat' = lastHeartbeat
       /\ is_alive' = is_alive
       /\ tasks'[ev'.out[1]].pc \in {"read", "backoff"}
       /\ ~tasks'[ev'.out[1]].cancel]_vars
C4_Witness ==
  /\ ev.type = "line"
  /\ ev.arg = NonIntReportLine
  /\ Len(queue) = 1
  /\ is_alive

(* C6: read_packet returns the packets in the order the reader queued them,  *)
(* each once: what was queued is what was returned followed by what is still *)
(* queued; it returns None only with the queue empty and the whole deadline  *)
(* gone by since the call.                                                   *)
C6_FifoExactlyOnce ==
  /\ enqueued = delivered \o queue
  /\ (ev.type = "read_packet" /\ ev.res = "packet") =>
       (Len(delivered) > 0 /\ ev.out = <<delivered[Len(delivered)]>>)
  /\ (ev.type = "read_packet" /\ ev.res = "None") =>
       (queue = <<>> /\ now - ev.arg[1] >= deadline_sec)
C6_Witness ==
  /\ ev.type = "read_packet"
  /\ Len(delivered) = 2
  /\ delivered[1][1] # delivered[2][1]
  /\ queue = <<>>

(* C2: no worker is in a read or a write on a transport that close() has     *)
(* released: whenever a transport is closed, no reader task is suspended in  *)
(* readline_async on it and no heartbeat task in write_async on it.          *)
C2_NoWorkerOnReleasedTransport ==
  \A t \in 1..Len(tasks) :
    tasks[t].pc \in {"read", "write"} => serState[tasks[t].io] # "closed"

(* C5: is_alive() is true exactly when the link is open (an open() has       *)
(* completed on a transport that no close() has released since) and less     *)
(* than heartbeat_timeout has gone by since the later of that open() and the *)
(* last inbound heartbeat.                                                   *)
C5_AliveIffOpenAndFresh ==
  is_alive = (linkOpen /\ now - Max(openTime, hbTime) < heartbeat_timeout)

(* C7: an open() that finds the transport handle set changes nothing of the  *)
(* connection, and at no time does the connection have more than one reader  *)
(* task or more than one heartbeat task that has not ended.                  *)
Running(kind) == {t \in 1..Len(tasks) : tasks[t].kind = kind /\ tasks[t].pc # "done"}
C7_OpenIdempotent ==
  [][/\ (ev'.type = "open_return" => UNCHANGED <<conn, openWait, closeWait>>)
     /\ Cardinality(Running("reader"))' <= 1
     /\ Cardinality(Running("hb"))' <= 1]_vars

(* C8: close() called on a connection whose transport handle and task        *)
(* handles are all None (never opened, or closed before) returns without     *)
(* waiting, raises nothing, leaves the handles None and is_alive() false,    *)
(* and changes no transport, no task and nothing of the queue or the         *)
(* timestamp.                                                                *)
C8_CloseIdempotent ==
  [][(Closed /\ ev'.type \in {"close_wait", "close_done"} /\ ev'.arg = <<"closed">>) =>
       /\ ev'.type = "close_done"
       /\ ev'.res = ""
       /\ Closed'
       /\ ~aliveFlag'
       /\ ~is_alive'
       /\ UNCHANGED <<serState, tasks, queue, lastHeartbeat, openWait, closeWait>>]_vars
C8_Witness ==
  /\ ev.type = "close_done"
  /\ ev.arg = <<"closed">>
  /\ Len(serState) > 0
  /\ serState[Len(serState)] = "closed"
  /\ Len(tasks) > 0
  /\ InFlight = 0

(* C9: when an open() that follows a close() has completed, the queue is     *)
(* empty and the last-heartbeat timestamp is the time of that open().        *)
C9_ResetOnOpen ==
  (ev.type = "open_done" /\ \E s \in 1..Len(serState) : serState[s] = "closed") =>
    (queue = <<>> /\ lastHeartbeat = now)

(* C10: a read_packet call made on an open link after the transport has      *)
(* failed for good and the reader has run into the failure (so that it       *)
(* delivers nothing any more) does not return None, the result of a timeout. *)
C10_StoppedReaderSurfaced ==
  (ev.type = "read_packet" /\ ev.arg[2]) => ev.res # "None"
(* C11: a heartbeat write that raised does not end the sender, which is in   *)
(* the sleep of its exception handler and, while the transport handle is     *)
(* set, goes on to another write; a sender that has ended had been           *)
(* cancelled, and a cancelled sender does end.                               *)
IsSender(t) == t \in 1..Len(tasks) /\ tasks[t].kind = "hb"
C11_FailedSenderWaits(t) ==
  IF IsSender(t) THEN tasks[t].pc = "backoff" /\ tasks[t].failed /\ ser # 0 ELSE FALSE
C11_SenderWritesOrEnded(t) ==
  IF IsSender(t) THEN tasks[t].pc \in {"write", "done"} \/ ser = 0 ELSE FALSE
C11_SenderCancelled(t) == IF IsSender(t) THEN tasks[t].cancel ELSE FALSE
C11_SenderEnded(t) == IF IsSender(t) THEN tasks[t].pc = "done" ELSE FALSE
C11_FailureKeepsSender ==
  IF ev.type = "hb_written" /\ ev.res # "" THEN tasks[ev.arg[1]].pc = "backoff" ELSE TRUE
C11_EndedOnlyByCancel ==
  \A t \in 1..Len(tasks) : C11_SenderEnded(t) => tasks[t].cancel
C11_HeartbeatSenderPersists ==
  /\ []C11_FailureKeepsSender
  /\ []C11_EndedOnlyByCancel
  /\ \A t \in 1..MaxTasks :
       /\ C11_FailedSenderWaits(t) ~> C11_SenderWritesOrEnded(t)
       /\ C11_SenderCancelled(t) ~> C11_SenderEnded(t)
C11_Witness ==
  \E t \in 1..Len(tasks) :
    /\ IsSender(t)
    /\ tasks[t].failed
    /\ tasks[t].pc = "write"
    /\ linkOpen
    /\ heartbeatTask = t
    /\ ev.type = "hb_write"

(* C12 as stated: after every reconcile call, for a channel with Ki > 0 the  *)
(* product of Ki and the stored integral is at most aw_limit in magnitude    *)
(* (peltier_Ki with integral_temp, pump_Ki with integral_moisture).          *)
NCalls == Len(rsamples)
C13_CommandInRange ==
  NCalls > 0 =>
    /\ rout.command.pump_level \in 0..1023
    /\ rout.command.peltier_level \in 0..1023
    /\ rout.command.peltier_forward \in {0, 1}
    /\ rout.command.pump_level = 0 \/ rout.command.pump_level >= rtune.cutoff
    /\ rout.command.peltier_level = 0 \/ rout.command.peltier_level >= rtune.cutoff
    /\ SendValid(<<"pump", rout.command.pump_level, 0>>)
    /\ SendValid(<<"peltier", rout.command.peltier_level, rout.command.peltier_forward>>)
C13_Witness ==
  /\ NCalls > 0
  /\ rout.command = [pump_level |-> 1023, peltier_level |-> 1023, peltier_forward |-> 1]
  /\ Abs(rout.u_noI_temp) > 1023 * Scale

(* C14: outside every disable window and with cutoff <= 1023 the pump level  *)
(* is 1023 when the filtered moisture is strictly below lo - deadband and 0  *)
(* otherwise; it is never anything but 0 or 1023.                            *)
InWindow(w, clock) ==
  LET start == 60 * w[1] + w[2]
      end == 60 * w[3] + w[4]
  IN IF start <= end THEN start <= clock /\ clock < end
     ELSE clock >= start \/ clock < end
InAnyWindow(config, clock) ==
  \E i \in 1..Len(config.pump_disable_times) : InWindow(config.pump_disable_times[i], clock)
C14_PumpOnOff ==
  NCalls > 0 =>
    /\ rout.command.pump_level \in {0, 1023}
    /\ (~InAnyWindow(rconfig, rout.clock) /\ rtune.cutoff <= 1023) =>
         rout.command.pump_level =
           IF rstate.filt_moist[1] < rconfig.moisture_range[1] * Scale - rtune.moisture_deadband
           THEN 1023 ELSE 0
C14_Witness ==
  /\ NCalls = MaxCalls
  /\ rout.command.pump_level = 1023
  /\ rtune.cutoff = 1023
  /\ rconfig.pump_disable_times # <<>>
  /\ rsamples[1].moisture = 19
  /\ rout.prev.filt_moist[1] < 19 * Scale

(* C15: in a disable window the pump level is 0 however low the moisture; a  *)
(* window is active from its start up to, not including, its end, through    *)
(* midnight when its start is after its end: (22,0,6,0) is active at 23:00,  *)
(* 23:30 and 05:30 and not at 12:00 nor at 06:00.                            *)
C15_DisableWindow ==
  NCalls > 0 =>
    /\ InAnyWindow(rconfig, rout.clock) => rout.command.pump_level = 0
    /\ rout.disabled = InAnyWindow(rconfig, rout.clock)
    /\ rconfig.pump_disable_times = <<<<22, 0, 6, 0>>>> =>
         /\ rout.clock \in {23 * 60, 23 * 60 + 30, 5 * 60 + 30} => rout.disabled
         /\ rout.clock \in {12 * 60, 6 * 60} => ~rout.disabled
C15_Witness ==
  /\ NCalls > 0
  /\ rconfig.pump_disable_times = <<<<22, 0, 6, 0>>>>
  /\ rout.clock = 5 * 60 + 30
  /\ rstate.filt_moist = <<10 * Scale>>
  /\ rout.command.pump_level = 0

(* C16: with a warmup count N > 0 the buffer of a channel holds, after k     *)
(* calls, the last min(k, N) raw samples in the order they came, and the SMA *)
(* is their arithmetic mean; with N = 0 (or less) the buffer is left as it   *)
(* was and the SMA is the raw sample.                                        *)
Min(a, b) == IF a <= b THEN a ELSE b
LastSamples(field, n) ==
  [i \in 1..n |-> rsamples[NCalls - n + i][field] * Scale]
C16_Channel(count, buf, prev_buf, sma, field) ==
  IF count > 0
  THEN /\ Len(buf) <= count
       /\ buf = LastSamples(field, Min(NCalls, count))
       /\ sma = RoundDiv(Sum(LastSamples(field, Min(NCalls, count))), Min(NCalls, count))
  ELSE /\ buf = prev_buf
       /\ sma = rsamples[NCalls][field] * Scale
C17_Channel(alpha, filt, sma, field) ==
  /\ NCalls = 1 => filt = <<rsamples[1][field] * Scale>>
  /\ alpha >= Scale => filt = <<sma>>
  /\ alpha <= 0 => filt = <<rsamples[1][field] * Scale>>
C17_EmaSeedAndLimits ==
  NCalls > 0 =>
    /\ C17_Channel(rtune.temp_ema_alpha, rstate.filt_temp, rout.temp_sma, "temp_inner")
    /\ C17_Channel(rtune.moisture_ema_alpha, rstate.filt_moist, rout.moist_sma, "moisture")
C17_Witness ==
  /\ NCalls = 3
  /\ rtune.temp_ema_alpha < 0
  /\ rsamples[1].temp_inner = 17
  /\ rsamples[3].temp_inner = 45
  /\ rstate.filt_temp = <<17 * Scale>>

(* C18: a call whose filtered moisture is in [lo - db, hi + db] leaves       *)
(* integral_moisture as it was; a call whose target minus filtered           *)
(* temperature is below temp_deadband in magnitude uses a temperature error  *)
(* of 0 and leaves integral_temp as it was; from a fresh state and with the  *)
(* default tune such a call returns peltier_level 0, and the report of       *)
(* Scenario A (moisture 10, inner temperature 20, dt 1.0) also returns       *)
(* pump_level 1023.                                                          *)
C18_TempInDeadband ==
  Abs(rconfig.target_inner_temp * Scale - rstate.filt_temp[1]) < rtune.temp_deadband
C18_MoistInDeadband ==
  /\ rstate.filt_moist[1] >= rconfig.moisture_range[1] * Scale - rtune.moisture_deadband
  /\ rstate.filt_moist[1] <= rconfig.moisture_range[2] * Scale + rtune.moisture_deadband
C18_DeadbandFrame ==
  NCalls > 0 =>
    /\ C18_MoistInDeadband => rstate.integral_moisture = rout.prev.integral_moisture
    /\ C18_TempInDeadband =>
         /\ rout.temp_error = 0
         /\ rstate.last_temp_error = 0
         /\ rstate.integral_temp = rout.prev.integral_temp
    /\ (C18_TempInDeadband /\ NCalls = 1 /\ rtune = DefaultTune) =>
         rout.command.peltier_level = 0
    /\ (NCalls = 1 /\ rtune = DefaultTune /\ rconfig = DefaultConfig
        /\ rout.report = Report(10, 20) /\ rout.dt = Scale) =>
         (rout.command.pump_level = 1023 /\ rout.command.peltier_level = 0)
C18_Witness ==
  /\ NCalls >= 2
  /\ C18_TempInDeadband
  /\ rout.raw_temp_error # 0
  /\ rstate.integral_temp # 0
  /\ rtune.peltier_Ki > 0

(* C19: peltier_forward is 0 exactly when the saturated output (P+D plus the *)
(* clamped I, clamped to +-1023) is >= 0 and 1 exactly when it is < 0, and   *)
(* peltier_level is its magnitude rounded to an integer, or 0 when that is   *)
(* below the cutoff; a temperature below target by the deadband or more with *)
(* a positive output gives forward 0.                                        *)
C19_Output ==
  LET u == rout.u_noI_temp + rout.I_temp
  IN IF u < -1023 * Scale THEN -1023 * Scale ELSE IF u > 1023 * Scale THEN 1023 * Scale ELSE u
C19_Rounded == RoundDiv(Abs(C19_Output), Scale)
C19_ForwardIsSign ==
  NCalls > 0 =>
    /\ rout.command.peltier_forward = 0 <=> C19_Output >= 0
    /\ rout.command.peltier_forward = 1 <=> C19_Output < 0
    /\ rout.command.peltier_level = IF C19_Rounded < rtune.cutoff THEN 0 ELSE C19_Rounded
    /\ (rout.temp_error > 0 /\ C19_Output > 0) => rout.command.peltier_forward = 0
C19_Witness ==
  /\ NCalls >= 2
  /\ rout.command.peltier_forward = 1
  /\ rout.command.peltier_level > rtune.cutoff
  /\ rout.command.peltier_level < 1023
  /\ rout.prev.last_temp_error > 0

(* C20: every sensor report read_task got from read_packet, the first one    *)
(* included, is given to one reconcile call, and before read_task takes the  *)
(* next packet (or waits for it) that call is followed by send_pump,         *)
(* send_peltier and a fan command for the command the call returned.         *)
IsReportAt(i) == orch.log[i].e = "packet" /\ orch.log[i].v[1] = 0
NextPacketAt(i) ==
  IF \E j \in (i + 1)..Len(orch.log) : orch.log[j].e = "packet"
  THEN CHOOSE j \in (i + 1)..Len(orch.log) :
         /\ orch.log[j].e = "packet"
         /\ \A k \in (i + 1)..(j - 1) : orch.log[k].e # "packet"
  ELSE Len(orch.log) + 1
HandledAt(i) == NextPacketAt(i) <= Len(orch.log) \/ orch.pc \in {"loop", "read"}
IsSendAt(j, a) == orch.log[j].e = "send" /\ orch.log[j].v = a
C20_ReconciledAndSent(i) ==
  /\ NextPacketAt(i) - 1 >= i + 4
  /\ orch.log[i + 1].e = "reconcile"
  /\ orch.log[i + 1].v[1] = orch.log[i].v[2]
  /\ \A j \in (i + 2)..(NextPacketAt(i) - 1) : orch.log[j].e # "reconcile"
  /\ IsSendAt(i + 2, <<"pump", orch.log[i + 1].v[2].pump_level, 0>>)
  /\ IsSendAt(i + 3, <<"peltier", orch.log[i + 1].v[2].peltier_level,
                      orch.log[i + 1].v[2].peltier_forward>>)
  /\ orch.log[i + 4].e = "send"
  /\ orch.log[i + 4].v[1] = "fans"
C20_EveryReportReconciled ==
  \A i \in 1..Len(orch.log) :
    (IsReportAt(i) /\ HandledAt(i)) => C20_ReconciledAndSent(i)

(* C22: a fan command read_task sends comes after the pump and the Peltier   *)
(* commands of the same reconcile call, and its level is 1023 if the         *)
(* command's peltier_level is 64 or more and 0 otherwise; the mock server's  *)
(* apply_control_command sets the same fan level for that command and at the *)
(* threshold.                                                                *)
C22_Rule(peltier_level) == IF peltier_level >= 64 THEN 1023 ELSE 0
C22_IsFansAt(j) == orch.log[j].e = "send" /\ orch.log[j].v[1] = "fans"
C22_FansAfterCommand(j) ==
  /\ j >= 4
  /\ orch.log[j - 3].e = "reconcile"
  /\ LET command == orch.log[j - 3].v[2] IN
     /\ IsSendAt(j - 2, <<"pump", command.pump_level, 0>>)
     /\ IsSendAt(j - 1, <<"peltier", command.peltier_level, command.peltier_forward>>)
     /\ orch.log[j].v = <<"fans", C22_Rule(command.peltier_level), 0>>
     /\ apply_control_command(command).fan_level = orch.log[j].v[2]
C22_FanFollowsPeltier ==
  /\ \A j \in 1..Len(orch.log) : C22_IsFansAt(j) => C22_FansAfterCommand(j)
  /\ \A level \in {0, 63, 64, 65, 1023} :
       apply_control_command([pump_level |-> 0, peltier_level |-> level,
                              peltier_forward |-> 0]).fan_level = C22_Rule(level)
C22_Witness ==
  /\ Len(orch.log) >= 4
  /\ orch.log[Len(orch.log)].e = "send"
  /\ orch.log[Len(orch.log)].v = <<"fans", 1023, 0>>
  /\ orch.log[Len(orch.log) - 3].v[2].peltier_level >= 64
  /\ orch.pc = "loop"

(* C24: no inbound line ends read_task: it leaves its loop only by an        *)
(* exception of the transport (an open or a write that failed, a link that   *)
(* is not open), whatever packets it has been given.                         *)
C24_LeftLoop == orch.pc \in {"exit", "closing", "ended"}
C24_NoLineFatal ==
  C24_LeftLoop => orch.raised \in {"SerialException", "RuntimeError"}

(* C27: every reconcile call process_report makes is given the config and    *)
(* the tune loaded at start-up, so that with a loaded pump disable window    *)
(* that includes the time of the call the pump level of the command, and the *)
(* pump level sent for it, is 0.                                             *)
C27_IsReconcileAt(j) == orch.log[j].e = "reconcile"
C27_LoadedConfigUsed ==
  NCalls > 0 =>
    /\ rout.config = rconfig
    /\ rout.tune = rtune
    /\ InAnyWindow(rconfig, rout.clock) =>
         \A j \in 1..Len(orch.log) :
           /\ C27_IsReconcileAt(j) => orch.log[j].v[2].pump_level = 0
           /\ (C27_IsReconcileAt(j) /\ j < Len(orch.log)) =>
                orch.log[j + 1].v = <<"pump", 0, 0>>

(* C21: a shutdown that lifespan completes has sent pump 0, peltier (0,0)   *)
(* and fans 0, in this order, after task.cancel() and before the link used  *)
(* for them is closed, whether or not a command had been computed; no        *)
(* actuator command with a level other than 0 is sent after them.            *)
C21_ShutdownAt == CHOOSE k \in 1..Len(orch.log) : orch.log[k].e = "shutdown"
C21_ZerosSentAfter(k) ==
  /\ Len(orch.log) >= k + 3
  /\ IsSendAt(k + 1, <<"pump", 0, 0>>)
  /\ IsSendAt(k + 2, <<"peltier", 0, 0>>)
  /\ IsSendAt(k + 3, <<"fans", 0, 0>>)
  /\ \A j \in (k + 4)..Len(orch.log) : orch.log[j].e = "send" => orch.log[j].v[2] = 0
C21_ZerosOnShutdown ==
  orch.life = "done" => C21_ZerosSentAfter(C21_ShutdownAt)

(* C23: in a reconcile call error*dt is added to integral_temp exactly when  *)
(* the error is not 0 and the tentative output (P+D plus Ki*integral,        *)
(* saturated to +-1023) is not at +1023 with error > 0 nor at -1023 with     *)
(* error < 0; the stored integral is the result of that, clamped to          *)
(* +-aw_limit/Ki when Ki > 0, so that a skipped update changes it only       *)
(* through the clamp.                                                        *)
C23_Tentative ==
  LET u == rout.u_noI_temp + FMul(rout.tune.peltier_Ki, rout.prev.integral_temp)
  IN IF u > 1023 * Scale THEN 1023 * Scale ELSE IF u < -1023 * Scale THEN -1023 * Scale ELSE u
C23_Skipped ==
  \/ rout.temp_error = 0
  \/ (C23_Tentative = 1023 * Scale /\ rout.temp_error > 0)
  \/ (C23_Tentative = -1023 * Scale /\ rout.temp_error < 0)
C23_Clamped(integral) ==
  IF rout.tune.peltier_Ki <= 0 THEN integral
  ELSE LET c == FMul(rout.tune.peltier_Ki, integral)
           lim == rout.tune.aw_limit
       IN FDiv(IF c > lim THEN lim ELSE IF c < -lim THEN -lim ELSE c, rout.tune.peltier_Ki)
C23_ConditionalIntegration ==
  NCalls > 0 =>
    /\ rout.integrated =
         rout.prev.integral_temp
           + (IF C23_Skipped THEN 0 ELSE FMul(rout.temp_error, rout.dt_used))
    /\ rstate.integral_temp = C23_Clamped(rout.integrated)
    /\ C23_Skipped => rstate.integral_temp = C23_Clamped(rout.prev.integral_temp)
C23_Witness ==
  /\ NCalls >= 2
  /\ rout.temp_error < 0
  /\ C23_Tentative = -1023 * Scale
  /\ rout.prev.integral_temp > 0
  /\ rstate.integral_temp = rout.prev.integral_temp

(* C25: whenever the transport handle is cleared and no open() or close()    *)
(* call is in progress, no reader or heartbeat-sender task that has started  *)
(* is still running, and is_alive() is false.                                *)
C25_Started(t) == tasks[t].pc \notin {"new", "done"}
C25_QuietWhenCleared ==
  (ser = 0 /\ InFlight = 0) =>
    /\ \A t \in 1..Len(tasks) : ~C25_Started(t)
    /\ ~is_alive

(* C26: a sensor-report line of kind 0 with five integer fields is decoded   *)
(* and queued whatever read_light() does: the reader that read it has put a  *)
(* sensor-report packet on the queue.                                        *)
C26_WellFormedReport(line) ==
  /\ Len(line) = 6
  /\ line[1] = IntF(KIND_SENSOR_REPORT)
  /\ \A i \in 1..Len(line) : line[i].isInt
C26_ReportAlwaysQueued ==
  (ev.type = "line" /\ C26_WellFormedReport(ev.arg)) =>
    /\ ev.res = "put"
    /\ Len(enqueued) > 0
    /\ enqueued[Len(enqueued)][1] = KIND_SENSOR_REPORT
====
